---- MODULE Spec2Model ----
(***************************************************************************)
(* Model of swift/common/middleware/queue.py: the SortableUid generator    *)
(* and the MessageQueue middleware (POST / GET / DELETE) on top of an      *)
(* object store with a sorted, paginated container listing.                *)
(*                                                                         *)
(* Object names are Python byte strings; they are modelled as sequences of *)
(* character codes so that formatting, suffix tests, rstrip and the        *)
(* listing order are computed as the code computes them.                   *)
(***************************************************************************)
EXTENDS Integers, Sequences, FiniteSets, TLC

\* ------------------------------------------------------------------ bounds

\* the clock runs from 0 to MaxTime milliseconds
MaxTime == 2
\* identifiers issued by the generator (SeqSpec)
MaxIds == 2
\* identifiers issued by the generator (RaceSpec)
RaceIds == 1
\* largest container listing page size tried
MaxLimit == 2
\* PUTs of one object name (BurstSpec)
MaxPuts == 2
\* identifiers issued by the SortableUid instances together (UidSpec)
MaxIssued == 3

\* ------------------------------------------------------- program constants

COUNTER_DIGITS == 3
ID_DIGITS == 3
TIME_DIGITS == 10
COUNTER_LIMIT == 2 ^ (COUNTER_DIGITS * 4)

\* ------------------------------------------------------------------ strings

\* character codes: '/', '0'..'9', 'a'..'z'
Slash == 47
Zero == 48
S_deleted == <<100, 101, 108, 101, 116, 101, 100>>
S_msg == <<109, 115, 103>>
\* Python's None and the empty string, both falsy
None == <<>>

\* one hexadecimal digit as a character code ('0'..'9', 'a'..'f')
HexChar(d) == IF d < 10 THEN Zero + d ELSE 87 + d

RECURSIVE HexDigits(_)
\* '%x' % n: the shortest hexadecimal form of n
HexDigits(n) ==
    IF n < 16 THEN <<HexChar(n)>>
    ELSE Append(HexDigits(n \div 16), HexChar(n % 16))

RECURSIVE ZeroPad(_, _)
\* the '0<w>' flag of a format: left-pad with '0' to at least w characters
ZeroPad(s, w) == IF Len(s) >= w THEN s ELSE ZeroPad(<<Zero>> \o s, w)

\* UID_FORMAT % (ms, id, counter) = '%010x%s%03x'
UID_FORMAT(ms, id, c) ==
    ZeroPad(HexDigits(ms), TIME_DIGITS) \o id \o ZeroPad(HexDigits(c), COUNTER_DIGITS)

\* a < b for Python byte strings (also the container listing's order)
StrLess(a, b) ==
    \E i \in 1..Len(b) :
        /\ i <= Len(a) + 1
        /\ \A j \in 1..(i - 1) : a[j] = b[j]
        /\ \/ i = Len(a) + 1
           \/ i <= Len(a) /\ a[i] < b[i]

\* name.endswith(suffix)
EndsWith(name, suffix) ==
    /\ Len(name) >= Len(suffix)
    /\ SubSeq(name, Len(name) - Len(suffix) + 1, Len(name)) = suffix

RECURSIVE RStrip(_, _)
\* name.rstrip(chars): drops trailing characters that are in the set chars
RStrip(name, chars) ==
    IF name # <<>> /\ name[Len(name)] \in chars
    THEN RStrip(SubSeq(name, 1, Len(name) - 1), chars)
    ELSE name

\* '/' in name
HasSlash(name) == \E i \in 1..Len(name) : name[i] = Slash

\* '%s/deleted' % obj, '%s/msg' % obj, '%s/%s' % (obj, sub)
DeletedKey(obj) == obj \o <<Slash>> \o S_deleted
MsgKey(obj) == obj \o <<Slash>> \o S_msg
SubKey(obj, sub) == obj \o <<Slash>> \o sub

\* --------------------------------------------------------------------- state

\* the callers whose requests the middleware serves concurrently
Procs == {1, 2}
\* the random instance tag uuid4().hex[:ID_DIGITS] of the generator: "a0b"
Tags == {<<97, 48, 98>>}
\* sub-key names the consumers use for their claim markers: "1", "2"
MarkerNames == {<<49>>, <<50>>}
\* lease durations (ms) the consumers write into a claim marker
Leases == {1}
\* an identifier that no enqueue ever issued: "0"
UnknownId == <<48>>
\* the queue whose container is modelled, and any other queue served by the
\* same middleware instance (hence by the same SortableUid)
Queues == {"q", "other"}

VARIABLES
    now,        \* time.time() * 1000, truncated to an integer
    uid_id,     \* SortableUid._id
    counter,    \* SortableUid._counter
    exists,     \* whether the queue's container exists in the object store
    store,      \* the container: object name -> [expires, puts]
    limit,      \* page size of the container listing (container_listing_limit)
    call,       \* per caller: the request in progress, its local variables
                \* and, once the handler has returned, its response
    uids,       \* history: the first identifier the generator issued, and
                \* whether it has been issued again since
    fault,      \* the request the object store currently fails, if any
    hist,       \* history of one run of get_message_list: the markers it
                \* sent, the names it received, the pairs it yielded
    clock,      \* time.time() * 1000 of the SortableUid instances, two limbs
    gens,       \* the SortableUid instances: _id and _counter of each
    issued      \* history: the identifiers the instances returned

vars == <<now, uid_id, counter, exists, store, limit, call, uids,
          fault, hist, clock, gens, issued>>

\* what no request handler changes
outside == <<fault, hist, clock, gens, issued>>

Idle == [pc |-> "idle", op |-> "none", obj |-> None, data |-> <<>>, idx |-> 0,
         msg |-> None, pending |-> None, status |-> 0, id |-> None]

\* the handler of request op on obj has returned: status and, in the body,
\* the identifier of a message; msg stays the message get_message was asked
\* to claim, if any
Resp(o, ob, st, i) == [Idle EXCEPT !.pc = "done", !.op = o, !.obj = ob,
                                   !.status = st, !.id = i]

\* every caller is between two requests
Quiet == \A p \in Procs : call[p].pc = "idle"

\* the message identifiers that have a payload object
MsgIds(st) == {SubSeq(k, 1, Len(k) - 4) :
                  k \in {n \in DOMAIN st : EndsWith(n, <<Slash>> \o S_msg)}}

\* the claim markers of message id: its sub-keys other than msg and deleted
MarkersOf(st, id) == {SubKey(id, m) : m \in MarkerNames} \cap DOMAIN st

AllMarkers(st) == UNION {MarkersOf(st, id) : id \in MsgIds(st)}

\* a PUT of an object: creates it or replaces it, counting the writes
PutObject(st, key, exp) ==
    [k \in DOMAIN st \cup {key} |->
        IF k = key
        THEN [expires |-> exp, puts |-> IF key \in DOMAIN st THEN st[key].puts + 1 ELSE 1]
        ELSE st[k]]

\* the object store answers every request as its content tells
NoFault == [kind |-> "none", key |-> None]

\* get_message_list has not run
NoHist == [markers |-> <<>>, listed |-> <<>>, yielded |-> <<>>]

\* one middleware instance, no queue yet
InitQueue ==
    /\ now = 0
    /\ uid_id \in Tags
    /\ counter = 0
    /\ exists = FALSE
    /\ store = <<>>
    /\ limit \in 1..MaxLimit
    /\ call = [p \in Procs |-> Idle]
    /\ uids = [first |-> None, again |-> FALSE]
    /\ hist = NoHist

\* no further SortableUid instances
InitUid ==
    /\ clock = <<0, 0>>
    /\ gens = <<>>
    /\ issued = <<>>

Init == InitQueue /\ fault = NoFault /\ InitUid

\* ----------------------------------------------------------- SortableUid

\* SortableUid.get: the counter after the call
NextCounter(c) == (c + 1) % COUNTER_LIMIT

\* SortableUid.get: the identifier returned
SortableUid_get(ms, id, c) == UID_FORMAT(ms, id, NextCounter(c))

\* ---------------------------------------------------------- object store

\* status of an object PUT into the queue's container
PutStatus(ex) == IF ex THEN 201 ELSE 404

RECURSIVE TakeSorted(_, _)
\* the first n names of S in listing order
TakeSorted(S, n) ==
    IF n = 0 \/ S = {} THEN <<>>
    ELSE LET m == CHOOSE k \in S : \A o \in S : o = k \/ StrLess(k, o)
         IN  <<m>> \o TakeSorted(S \ {m}, n - 1)

\* list_container: one page of names after marker (marker None: from the start)
list_container(st, marker, lim) ==
    TakeSorted({k \in DOMAIN st : marker = None \/ StrLess(marker, k)}, lim)

\* the object store fails the request of this kind ("head", "get", "list")
\* for this object name (for a listing: this marker)
Fails(flt, kind, key) == flt = [kind |-> kind, key |-> key]

\* status of a container listing request that would return names
ListStatus(ex, flt, marker, names) ==
    IF Fails(flt, "list", marker) THEN 503
    ELSE IF ~ex THEN 404
    ELSE IF names = <<>> THEN 204
    ELSE 200

\* list_container that takes a failed listing for an empty one
list_container_lenient(status) ==
    IF status = 204 \/ status < 200 \/ status >= 300 THEN "empty" ELSE "data"

\* list_container, lines 180-186: 204 gives [], another status outside 2xx
\* raises, otherwise the names in the body are returned
list_container_result(status) ==
    IF status = 204 THEN "empty"
    ELSE IF status < 200 \/ status >= 300 THEN "raise"
    ELSE "data"

\* is_deleted that never sees a tombstone
is_deleted_never(st, obj) == FALSE

\* is_deleted that tests the payload object instead of the tombstone
is_deleted_msg(st, obj) == MsgKey(obj) \in DOMAIN st

\* is_deleted: HEAD <obj>/deleted answers 2xx
is_deleted(st, obj) == DeletedKey(obj) \in DOMAIN st

\* is_deleted: HEAD <obj>/deleted answers neither 2xx nor 404, "raise resp"
is_deleted_raises(flt, obj) == Fails(flt, "head", DeletedKey(obj))

\* still_pending: the body is "pass", the result is None (falsy)
still_pending(st, pending) == FALSE

\* ------------------------------------------------------- get_message_list

RECURSIVE Scan(_, _, _, _)
\* The for loop of get_message_list over one page, from item i with the flags
\* (deleted, pending), up to the next yield or the end of the page.
Scan(data, i, deleted, pending) ==
    IF i > Len(data) THEN [yields |-> FALSE, msg |-> None, pending |-> None, idx |-> i]
    ELSE IF EndsWith(data[i], <<Slash>> \o S_deleted)
         THEN Scan(data, i + 1, TRUE, pending)
    ELSE IF EndsWith(data[i], <<Slash>> \o S_msg)
         THEN IF ~deleted
              THEN [yields |-> TRUE,
                    msg |-> RStrip(data[i], {Slash} \cup {S_msg[j] : j \in 1..3}),
                    pending |-> pending, idx |-> i + 1]
              ELSE Scan(data, i + 1, FALSE, None)
    ELSE IF HasSlash(data[i]) /\ ~deleted
         THEN Scan(data, i + 1, deleted, data[i])
    ELSE Scan(data, i + 1, deleted, pending)

\* get_message_list resumed on page data at item i: the caller's state at the
\* next yield (the GET loop then calls is_deleted), or at the end of the page
\* (the generator then asks for the next page, marker = data[-1]['name']).
Resume(c, data, i) ==
    LET r == Scan(data, i, FALSE, None) IN
    IF r.yields
    THEN [c EXCEPT !.pc = "head", !.data = data, !.idx = r.idx,
                   !.msg = r.msg, !.pending = r.pending]
    ELSE [c EXCEPT !.pc = "list", !.data = data, !.idx = r.idx,
                   !.msg = None, !.pending = None]

\* get_message_list that takes the first name of the page as the marker
next_marker_first(data) == data[1]

\* the marker for the next page: marker = data[-1]['name'] (line 149)
next_marker(data) == data[Len(data)]

\* get_message_list asks for the page after marker: an exception of
\* list_container ends the handler, an empty page ends the generator and GET
\* answers 204; otherwise the page is scanned.
Listed(p, c, marker) ==
    \E data \in {list_container(store, marker, limit)} :
       LET r == list_container_result(ListStatus(exists, fault, marker, data))
       IN  IF r = "raise"
           THEN call' = [call EXCEPT ![p] = Resp("claim_next", None, 500, None)]
           ELSE IF r = "empty" \/ data = <<>>
           THEN call' = [call EXCEPT ![p] = Resp("claim_next", None, 204, None)]
           ELSE call' = [call EXCEPT ![p] = Resume(c, data, 1)]

\* ------------------------------------------------------------ get_message

\* get_message after the GET of the pending marker (lines 157-162):
\* "resp" a non-2xx response is returned, "none" the lease is unexpired and
\* None is returned, "claim" the code goes on to line 163.
get_message_check(st, flt, t, pending) ==
    IF Fails(flt, "get", pending) \/ pending \notin DOMAIN st THEN "resp"
    ELSE IF t < st[pending].expires THEN "none"
    ELSE "claim"

\* get_message from line 163 on: self.increment is not defined, the call
\* raises AttributeError; the PUT request is built but never sent.  The
\* result is the response status and the object written (None: no write).
get_message_claim(t, msg, pending) == [status |-> 500, put |-> None, expires |-> 0]

\* ----------------------------------------------------------------- actions

\* the clock advances by one millisecond
Tick ==
    /\ now < MaxTime
    /\ now' = now + 1
    /\ UNCHANGED <<uid_id, counter, exists, store, limit, call, uids, outside>>

\* POST /queue/<account>/<queue>: create the queue's container (lines 65-70)
POST_queue(p) ==
    /\ call[p].pc = "idle"
    /\ exists' = TRUE
    /\ call' = [call EXCEPT ![p] =
          Resp("create", None, IF exists THEN 202 ELSE 201, None)]
    /\ UNCHANGED <<now, uid_id, counter, store, limit, uids, outside>>

\* POST /queue/<account>/<queue>/message: enqueue (lines 53-64).  A message
\* for another queue draws its identifier from the same generator and is
\* stored in that queue's container.
POST(p, q) ==
    /\ call[p].pc = "idle"
    /\ LET new_id == SortableUid_get(now, uid_id, counter)
           status == IF q = "q" THEN PutStatus(exists) ELSE 201
       IN  /\ counter' = NextCounter(counter)
           /\ store' = IF q = "q" /\ status = 201
                       THEN PutObject(store, MsgKey(new_id), 0)
                       ELSE store
           /\ call' = [call EXCEPT ![p] =
                 Resp(IF q = "q" THEN "enqueue" ELSE "enqueue_other", None,
                      status, IF status = 201 THEN new_id ELSE None)]
           /\ uids' = IF uids.first = None THEN [uids EXCEPT !.first = new_id]
                      ELSE IF uids.first = new_id THEN [uids EXCEPT !.again = TRUE]
                      ELSE uids
    /\ UNCHANGED <<now, uid_id, exists, limit, outside>>

\* A consumer leases message id: it PUTs the claim marker <id>/<name> with
\* expires = now + lease straight into the container (requests outside
\* /queue pass through the middleware, lines 36-38 and 50).
PutMarker(id, name, lease) ==
    /\ id \in MsgIds(store)
    /\ SubKey(id, name) \notin DOMAIN store
    /\ AllMarkers(store) = {}
    /\ store' = PutObject(store, SubKey(id, name), now + lease)
    /\ UNCHANGED <<now, uid_id, counter, exists, limit, call, uids, outside>>

\* GET /queue/<account>/<queue>: claim-next starts, first list_container
\* (lines 79-81, 135); a missing container makes list_container raise.
GET_queue(p) ==
    /\ call[p].pc = "idle"
    /\ Listed(p, [Idle EXCEPT !.op = "claim_next"], None)
    /\ UNCHANGED <<now, uid_id, counter, exists, store, limit, uids, outside>>

\* get_message_list asks for the next page (lines 149-150)
GET_list(p) ==
    /\ call[p].pc = "list"
    /\ Listed(p, call[p], next_marker(call[p].data))
    /\ UNCHANGED <<now, uid_id, counter, exists, store, limit, uids, outside>>

\* the GET loop on a yielded (msg, pending): is_deleted, still_pending, and
\* the start of get_message (lines 82-86, 153)
GET_head(p) ==
    /\ call[p].pc = "head"
    /\ call' = [call EXCEPT ![p] =
          IF is_deleted_raises(fault, call[p].msg)
          THEN Resp("claim_next", None, 500, None)
          ELSE IF is_deleted(store, call[p].msg)
                  \/ still_pending(store, call[p].pending)
          THEN Resume(call[p], call[p].data, call[p].idx)
          ELSE IF call[p].pending # None THEN [call[p] EXCEPT !.pc = "getp"]
          ELSE [call[p] EXCEPT !.pc = "claim"]]
    /\ UNCHANGED <<now, uid_id, counter, exists, store, limit, uids, outside>>

\* get_message: GET of the pending marker and the expiry test (lines 154-162).
\* A non-2xx response makes the GET loop continue; the None returned for an
\* unexpired lease makes "resp.status" raise AttributeError (line 87).
GET_pending(p) ==
    /\ call[p].pc = "getp"
    /\ LET r == get_message_check(store, fault, now, call[p].pending) IN
       call' = [call EXCEPT ![p] =
          IF r = "resp" THEN Resume(call[p], call[p].data, call[p].idx)
          ELSE IF r = "none" THEN Resp("claim_next", None, 500, None)
          ELSE [call[p] EXCEPT !.pc = "claim"]]
    /\ UNCHANGED <<now, uid_id, counter, exists, store, limit, uids, outside>>

\* get_message claims the message (lines 163-169) and the handler answers
GET_claim(p) ==
    /\ call[p].pc = "claim"
    /\ LET r == get_message_claim(now, call[p].msg, call[p].pending) IN
       /\ store' = IF r.put = None THEN store ELSE PutObject(store, r.put, r.expires)
       /\ call' = [call EXCEPT ![p] =
             [Resp(call[p].op, call[p].obj, r.status,
                   IF r.status \in 200..299 THEN call[p].msg ELSE None)
                 EXCEPT !.msg = call[p].msg]]
    /\ UNCHANGED <<now, uid_id, counter, exists, limit, uids, outside>>

\* GET /queue/<account>/<queue>/<obj>: claim-by-id (lines 74-78)
GET_message(p, obj) ==
    /\ call[p].pc = "idle"
    /\ call' = [call EXCEPT ![p] =
          IF is_deleted_raises(fault, obj)
          THEN Resp("claim_by_id", obj, 500, None)
          ELSE IF is_deleted(store, obj)
          THEN Resp("claim_by_id", obj, 204, None)
          ELSE [Idle EXCEPT !.pc = "claim", !.op = "claim_by_id",
                            !.obj = obj, !.msg = obj]]
    /\ UNCHANGED <<now, uid_id, counter, exists, store, limit, uids, outside>>

\* DELETE /queue/<account>/<queue>/<obj>: the is_deleted test (lines 107-110)
DELETE(p, obj) ==
    /\ call[p].pc = "idle"
    /\ call' = [call EXCEPT ![p] =
          IF is_deleted_raises(fault, obj)
          THEN Resp("delete", obj, 500, None)
          ELSE IF is_deleted(store, obj)
          THEN Resp("delete", obj, 404, None)
          ELSE [Idle EXCEPT !.pc = "put", !.op = "delete", !.obj = obj]]
    /\ UNCHANGED <<now, uid_id, counter, exists, store, limit, uids, outside>>

\* DELETE: the PUT of <obj>/deleted (lines 111-114)
DELETE_put(p) ==
    /\ call[p].pc = "put"
    /\ store' = IF PutStatus(exists) = 201
                THEN PutObject(store, DeletedKey(call[p].obj), 0)
                ELSE store
    /\ call' = [call EXCEPT ![p] =
          Resp("delete", call[p].obj, PutStatus(exists), None)]
    /\ UNCHANGED <<now, uid_id, counter, exists, limit, uids, outside>>

\* the response has been sent; the caller may issue its next request
Return(p) ==
    /\ call[p].pc = "done"
    /\ call' = [call EXCEPT ![p] = Idle]
    /\ UNCHANGED <<now, uid_id, counter, exists, store, limit, uids, outside>>

\* the identifiers a caller may name in a request
ObjInputs == MsgIds(store) \cup {UnknownId}

\* a producer's request arrives: the first step of its handler
Produce(p) ==
    \/ POST_queue(p)
    \/ counter < MaxIds /\ POST(p, "q")

\* a consumer's request arrives: the first step of its handler
Consume(p) ==
    \/ GET_queue(p)
    \/ \E obj \in ObjInputs : GET_message(p, obj)
    \/ \E obj \in ObjInputs : DELETE(p, obj)

\* a handler in progress takes its next step
Step(p) ==
    \/ GET_list(p)
    \/ GET_head(p)
    \/ GET_pending(p)
    \/ GET_claim(p)
    \/ DELETE_put(p)
    \/ Return(p)

\* a consumer leases a message
Lease ==
    \E id \in MsgIds(store), name \in MarkerNames, lease \in Leases :
        PutMarker(id, name, lease)

\* any number of callers at once
Next ==
    \/ Tick
    \/ Lease
    \/ \E p \in Procs : Produce(p)
    \/ \E p \in Procs : Consume(p)
    \/ \E p \in Procs : Step(p)

Spec == Init /\ [][Next]_vars

\* sequential use: one caller; a request arrives, and the clock and the
\* container change, only while no handler is in progress
SeqNext ==
    \/ Quiet /\ Tick
    \/ Quiet /\ Lease
    \/ Quiet /\ Produce(1)
    \/ Quiet /\ Consume(1)
    \/ Step(1)

SeqSpec == Init /\ [][SeqNext]_vars

\* racing consumers: the requests of the consumers interleave step by step,
\* on a container that changes only between their requests
RaceNext ==
    \/ Quiet /\ Tick
    \/ Quiet /\ Lease
    \/ Quiet /\ POST_queue(1)
    \/ Quiet /\ counter < RaceIds /\ POST(1, "q")
    \/ \E p \in Procs : Consume(p)
    \/ \E p \in Procs : Step(p)

RaceSpec == Init /\ [][RaceNext]_vars

\* a burst of enqueues within one millisecond: every COUNTER_LIMIT-th
\* message goes to the modelled queue, the others to another queue
BurstPOST(q) ==
    /\ (q = "q") <=> (NextCounter(counter) = 1)
    /\ q = "q" =>
          LET k == MsgKey(SortableUid_get(now, uid_id, counter))
          IN  k \in DOMAIN store => store[k].puts < MaxPuts
    /\ POST(1, q)

BurstNext ==
    \/ POST_queue(1)
    \/ \E q \in Queues : BurstPOST(q)
    \/ Return(1)

BurstSpec == Init /\ [][BurstNext]_vars

\* ------------------------------------------- get_message_list on its own

\* two identifiers issued by the generator
ScanIds == {SortableUid_get(0, t, c) : t \in Tags, c \in 0..1}

\* the claim markers that may lie in the container
ScanMarkers ==
    {SubKey(id, m) : id \in ScanIds \cup {UnknownId}, m \in MarkerNames}

\* the names that may lie in the container: payload, tombstone and claim
\* markers of the two messages, and the tombstone and the claim markers of
\* an identifier that was never enqueued (DELETE and the consumers' PUT do
\* not look for <id>/msg)
ScanKeys ==
    {MsgKey(id) : id \in ScanIds}
        \cup {DeletedKey(id) : id \in ScanIds \cup {UnknownId}}
        \cup ScanMarkers

\* the queue exists, the generator has issued ScanIds; any page size
ScanInit ==
    /\ now = 0
    /\ uid_id \in Tags
    /\ counter = Cardinality(ScanIds)
    /\ exists = TRUE
    /\ store = <<>>
    /\ limit \in 1..MaxLimit
    /\ call = [p \in Procs |-> Idle]
    /\ uids = [first |-> None, again |-> FALSE]
    /\ hist = NoHist
    /\ fault = NoFault
    /\ InitUid

\* the names of a smaller container: the first message with a claim marker
\* and a tombstone, the second message, and a tombstone without message
TermKeys ==
    LET first == SortableUid_get(0, CHOOSE t \in Tags : TRUE, 0) IN
    {MsgKey(id) : id \in ScanIds}
        \cup {DeletedKey(first), DeletedKey(UnknownId)}
        \cup {SubKey(first, m) : m \in MarkerNames}

\* before the scan: one of the names K is PUT into the container
ScanFill(K) ==
    /\ Quiet
    /\ hist = NoHist
    /\ \E k \in K \ DOMAIN store :
          store' = PutObject(store, k, IF k \in ScanMarkers THEN now + 1 ELSE 0)
    /\ UNCHANGED <<now, uid_id, counter, exists, limit, call, uids, outside>>

\* get_message_list is called: the first list_container (line 135)
ScanStart(p) ==
    /\ call[p].pc = "idle"
    /\ hist = NoHist
    /\ Listed(p, [Idle EXCEPT !.op = "claim_next"], None)
    /\ hist' = [hist EXCEPT !.markers = <<None>>,
                            !.listed = list_container(store, None, limit)]
    /\ UNCHANGED <<now, uid_id, counter, exists, store, limit, uids,
                   fault, clock, gens, issued>>

\* get_message_list asks for the next page (lines 149-150)
ScanPage(p) ==
    /\ call[p].pc = "list"
    /\ LET marker == next_marker(call[p].data) IN
       /\ Listed(p, call[p], marker)
       /\ hist' = [hist EXCEPT !.markers = Append(@, marker),
                               !.listed = @ \o list_container(store, marker, limit)]
    /\ UNCHANGED <<now, uid_id, counter, exists, store, limit, uids,
                   fault, clock, gens, issued>>

\* get_message_list has yielded (msg, pending) and its consumer asks for the
\* next pair (the "continue" of lines 83, 85, 88)
ScanYield(p) ==
    /\ call[p].pc = "head"
    /\ call' = [call EXCEPT ![p] = Resume(call[p], call[p].data, call[p].idx)]
    /\ hist' = [hist EXCEPT !.yielded = Append(@, <<call[p].msg, call[p].pending>>)]
    /\ UNCHANGED <<now, uid_id, counter, exists, store, limit, uids,
                   fault, clock, gens, issued>>

\* get_message_list has yielded (msg, pending) and its consumer leaves the
\* loop (in this source always by an exception, see get_message_claim)
ScanLeave(p) ==
    /\ call[p].pc = "head"
    /\ call' = [call EXCEPT ![p] = Resp("claim_next", None, 500, None)]
    /\ hist' = [hist EXCEPT !.yielded = Append(@, <<call[p].msg, call[p].pending>>)]
    /\ UNCHANGED <<now, uid_id, counter, exists, store, limit, uids,
                   fault, clock, gens, issued>>

\* the scan in progress takes its next step
ScanStep ==
    \/ ScanPage(1)
    \/ ScanYield(1)
    \/ ScanLeave(1)

ScanNext ==
    \/ ScanFill(ScanKeys)
    \/ ScanStart(1)
    \/ ScanStep

ScanSpec == ScanInit /\ [][ScanNext]_vars

TermNext ==
    \/ ScanFill(TermKeys)
    \/ ScanStart(1)
    \/ ScanStep

\* the scan of the smaller container; a handler in progress is never
\* suspended for ever
TermSpec == ScanInit /\ [][TermNext]_vars /\ WF_vars(ScanStep)

\* ------------------------------------------------- a failing object store

\* the requests of a claim-next that the store may fail: a listing page (by
\* its marker), the HEAD of a tombstone, the GET of a claim marker
FaultChoices(st) ==
    {NoFault}
        \cup {[kind |-> "list", key |-> m] : m \in {None} \cup DOMAIN st}
        \cup {[kind |-> "head", key |-> DeletedKey(id)] : id \in MsgIds(st)}
        \cup {[kind |-> "get", key |-> k] : k \in AllMarkers(st)}

\* the object store starts to answer one request with 503, or recovers
Break ==
    /\ \E f \in FaultChoices(store) : f # fault /\ fault' = f
    /\ UNCHANGED <<now, uid_id, counter, exists, store, limit, call, uids,
                   hist, clock, gens, issued>>

\* sequential claim-next calls on a store that fails one request
FaultNext ==
    \/ Quiet /\ Break
    \/ Quiet /\ Lease
    \/ Quiet /\ Produce(1)
    \/ Quiet /\ GET_queue(1)
    \/ Quiet /\ \E obj \in MsgIds(store) : DELETE(1, obj)
    \/ Step(1)

FaultSpec == Init /\ [][FaultNext]_vars

\* ------------------------------------------------ several SortableUid's

\* A time in milliseconds beyond 2^31 is kept in two limbs:
\* <<hi, lo>> stands for hi * Limb + lo, with lo < Limb.
Limb == 16 ^ 5

\* '%x' % ms for a time in two limbs
HexTime(t) ==
    IF t[1] = 0 THEN HexDigits(t[2])
    ELSE HexDigits(t[1]) \o ZeroPad(HexDigits(t[2]), 5)

\* UID_FORMAT % (ms, id, counter) for a time in two limbs
UID_FORMAT_at(t, id, c) ==
    ZeroPad(HexTime(t), TIME_DIGITS) \o id \o ZeroPad(HexDigits(c), COUNTER_DIGITS)

TimeLess(a, b) == a[1] < b[1] \/ (a[1] = b[1] /\ a[2] < b[2])

TimeSucc(t) == IF t[2] = Limb - 1 THEN <<t[1] + 1, 0>> ELSE <<t[1], t[2] + 1>>

\* the clock starts at 0 or two milliseconds before 16^TIME_DIGITS
ClockStarts == {<<0, 0>>, <<Limb - 1, Limb - 2>>}

\* the clock readings: up to MaxTime ms past 0 and past 16^TIME_DIGITS
UidTimes ==
    {<<0, n>> : n \in 0..MaxTime} \cup {<<Limb, n>> : n \in 0..MaxTime}
        \cup {<<Limb - 1, Limb - 2>>, <<Limb - 1, Limb - 1>>}

\* the SortableUid instances (one per middleware process)
Gens == {1, 2}

\* values that uuid4().hex[:ID_DIGITS] may take: "a0b", "a0c"
InstanceTags == {<<97, 48, 98>>, <<97, 48, 99>>}

\* SortableUid.__init__ for every instance: a random tag each, counter 0
UidInit ==
    /\ InitQueue
    /\ fault = NoFault
    /\ clock \in ClockStarts
    /\ gens \in [Gens -> [id : InstanceTags, counter : {0}]]
    /\ issued = <<>>

\* the clock of the instances advances by one millisecond
UidTick ==
    /\ TimeSucc(clock) \in UidTimes
    /\ clock' = TimeSucc(clock)
    /\ UNCHANGED <<now, uid_id, counter, exists, store, limit, call, uids,
                   fault, hist, gens, issued>>

\* SortableUid.get on instance g
UidGet(g) ==
    /\ Len(issued) < MaxIssued
    /\ gens' = [gens EXCEPT ![g].counter = NextCounter(@)]
    /\ issued' = Append(issued,
          [by |-> g, at |-> clock,
           uid |-> UID_FORMAT_at(clock, gens[g].id, NextCounter(gens[g].counter))])
    /\ UNCHANGED <<now, uid_id, counter, exists, store, limit, call, uids,
                   fault, hist, clock>>

UidNext ==
    \/ UidTick
    \/ \E g \in Gens : UidGet(g)

UidSpec == UidInit /\ [][UidNext]_vars

\* ------------------------------------------------------------- properties

\* message m has a tombstone
Tombstoned(m) == DeletedKey(m) \in DOMAIN store

\* message m is leased: its most recent claim marker (the last one in
\* listing order) has not expired at time t
Leased(m, t) ==
    \E k \in MarkersOf(store, m) :
        /\ \A o \in MarkersOf(store, m) : o = k \/ StrLess(o, k)
        /\ t < store[k].expires

\* the Available messages: payload, no tombstone, no unexpired lease
Avail == {m \in MsgIds(store) : ~Tombstoned(m) /\ ~Leased(m, now)}

\* the Available message with the smallest identifier
FirstAvail == CHOOSE m \in Avail : \A o \in Avail : o = m \/ StrLess(m, o)

\* caller p's handler of request o returns in this step
Completes(p, o) ==
    /\ call[p].pc # "done"
    /\ call'[p].pc = "done"
    /\ call'[p].op = o

\* C1: once <id>/deleted exists, no claim-next and no claim-by-id that
\* starts afterwards calls get_message on that message, let alone returns
\* it, whatever claim markers it has and wherever the page boundaries fall.
C1_MonotonicTombstone ==
    \A p \in Procs :
        call[p].op \in {"claim_next", "claim_by_id"} =>
            /\ call[p].pc \in {"getp", "claim"} => ~Tombstoned(call[p].msg)
            /\ call[p].pc = "done" =>
                  /\ call[p].msg # None => ~Tombstoned(call[p].msg)
                  /\ call[p].id # None => ~Tombstoned(call[p].id)

\* a claim-next has run to its end, with one name per listing page, over a
\* container that holds a tombstoned message with a claim marker
C1_Witness ==
    \E p \in Procs :
        /\ call[p].pc = "done"
        /\ call[p].op = "claim_next"
        /\ call[p].status = 204
        /\ limit = 1
        /\ \E m \in MsgIds(store) : Tombstoned(m) /\ MarkersOf(store, m) # {}

C3_ReturnsFirstAvailable ==
    [][\A p \in Procs :
          Completes(p, "claim_next") /\ exists =>
             IF Avail = {}
             THEN call'[p].status = 204
             ELSE /\ call'[p].status \in 200..299
                  /\ call'[p].id = FirstAvail]_vars

\* C4: a message whose lease was never acknowledged and has expired is
\* returned again by a claim-next issued later than the expiry.
C4_RequeueOnExpiry ==
    [][\A p \in Procs :
          /\ Completes(p, "claim_next")
          /\ Avail # {}
          /\ MarkersOf(store, FirstAvail) # {}
          /\ \A k \in MarkersOf(store, FirstAvail) : store[k].expires < now
          => /\ call'[p].status \in 200..299
             /\ call'[p].id = FirstAvail]_vars

C6_AcknowledgeIdempotent ==
    [][\A p \in Procs :
          Completes(p, "delete") /\ call'[p].obj \in MsgIds(store) =>
             /\ DeletedKey(call'[p].obj) \in DOMAIN store'
             /\ IF Tombstoned(call'[p].obj)
                THEN call'[p].status = 404 /\ store' = store
                ELSE /\ call'[p].status = 201
                     /\ store' = PutObject(store, DeletedKey(call'[p].obj), 0)]_vars

\* a delete-message on an existing, already deleted message answered 404
C6_Witness ==
    \E p \in Procs :
        /\ call[p].pc = "done"
        /\ call[p].op = "delete"
        /\ call[p].status = 404
        /\ call[p].obj \in MsgIds(store)
        /\ Tombstoned(call[p].obj)

\* C7: when two concurrent claim-next calls have both found the only
\* Available message claimable, each of them returns it.
C7_BothReturn ==
    [][\A p, q \in Procs :
          /\ p # q
          /\ call[p].op = "claim_next" /\ call[p].pc = "claim"
          /\ call[q].op = "claim_next" /\ call[q].pc = "claim"
          /\ call[p].msg = call[q].msg
          /\ Avail = {call[p].msg}
          /\ Completes(p, "claim_next")
          => /\ call'[p].status \in 200..299
             /\ call'[p].id = call[p].msg]_vars

C9_PayloadWriteOnce ==
    \A k \in DOMAIN store : EndsWith(k, <<Slash>> \o S_msg) => store[k].puts = 1

\* C10: the identifiers issued by one SortableUid are pairwise distinct,
\* also across a wrap of the counter within one millisecond: in particular
\* the first identifier is never issued again.
C10_IdsDistinct == uids.again = FALSE

\* C11: the identifiers issued by several SortableUid instances, each with
\* its own instance tag and its own counter starting at 0, are pairwise
\* distinct.
C11_DistinctAcrossInstances ==
    \A i, j \in 1..Len(issued) : i # j => issued[i].uid # issued[j].uid

\* C12: of two identifiers issued by the same SortableUid instance at
\* distinct millisecond timestamps, the earlier one is lexically smaller.
C12_LexicalOrderIsTimeOrder ==
    \A i, j \in 1..Len(issued) :
        /\ i < j
        /\ issued[i].by = issued[j].by
        /\ issued[i].at # issued[j].at
        => StrLess(issued[i].uid, issued[j].uid)

\* caller p's claim-next sends a container listing request in this step
ListingStep(p) ==
    /\ call'[p] # call[p]
    /\ \/ call[p].pc = "idle" /\ call'[p].op = "claim_next"
       \/ call[p].pc = "list"

\* the marker of that listing request
ListMarker(p) ==
    IF call[p].pc = "list" THEN call[p].data[Len(call[p].data)] ELSE None

\* C13: when the HEAD of a candidate's deleted key or the GET of its claim
\* marker answers with an error status, claim-next does not end there: it
\* skips the candidate and goes on with the scan.
C13_SkipsFailedCandidate ==
    [][\A p \in Procs :
          /\ call'[p] # call[p]
          /\ call[p].op = "claim_next"
          /\ \/ /\ call[p].pc = "head"
                /\ Fails(fault, "head", DeletedKey(call[p].msg))
             \/ /\ call[p].pc = "getp"
                /\ Fails(fault, "get", call[p].pending)
          => call'[p].pc # "done"]_vars

\* C14: a container listing request that fails, on the first or a later
\* page, ends claim-next with an error; claim-next answers 204 only after a
\* listing request that succeeded and found no name left to list.
C14_FailedListingIsError ==
    [][\A p \in Procs :
          /\ ListingStep(p) /\ (Fails(fault, "list", ListMarker(p)) \/ ~exists)
                => call'[p].pc = "done" /\ call'[p].status >= 500
          /\ Completes(p, "claim_next") /\ call'[p].status = 204
                => /\ ListingStep(p)
                   /\ exists
                   /\ ~Fails(fault, "list", ListMarker(p))
                   /\ \A k \in DOMAIN store :
                         ListMarker(p) # None /\ ~StrLess(ListMarker(p), k)]_vars

\* a claim-next has ended with an error because its listing request for a
\* later page failed
C14_Witness ==
    \E p \in Procs :
        /\ call[p].pc = "done"
        /\ call[p].op = "claim_next"
        /\ call[p].status = 500
        /\ call[p].msg = None
        /\ fault.kind = "list"
        /\ fault.key # None
        /\ AllMarkers(store) = {}

\* C15: a claim-by-id for an identifier that is deleted or has no payload
\* object answers "not found" (204 or 404) and writes nothing to the store.
C15_ByIdNotFound ==
    [][\A p \in Procs :
          /\ Completes(p, "claim_by_id")
          /\ call'[p].obj \notin MsgIds(store) \/ Tombstoned(call'[p].obj)
          => /\ call'[p].status \in {204, 404}
             /\ store' = store]_vars

\* C16: an enqueue on a queue whose container does not exist succeeds;
\* afterwards the container exists and holds <id>/msg for the returned id,
\* without a tombstone.
C16_ImplicitQueue ==
    [][\A p \in Procs :
          Completes(p, "enqueue") /\ ~exists =>
             /\ call'[p].status \in 200..299
             /\ exists'
             /\ call'[p].id # None
             /\ MsgKey(call'[p].id) \in DOMAIN store'
             /\ DeletedKey(call'[p].id) \notin DOMAIN store']_vars

RECURSIVE Yields(_, _)
\* the pairs get_message_list yields from item i of a page on
Yields(data, i) ==
    LET r == Scan(data, i, FALSE, None) IN
    IF r.yields THEN <<<<r.msg, r.pending>>>> \o Yields(data, r.idx) ELSE <<>>

\* all names of the container in listing order
AllNames(st) == TakeSorted(DOMAIN st, Cardinality(DOMAIN st))

\* get_message_list has been run to its end by caller p
Exhausted(p) ==
    /\ call[p].pc = "done"
    /\ call[p].status = 204
    /\ hist # NoHist

\* name starts with id followed by '/'
InGroup(name, id) ==
    /\ Len(name) > Len(id)
    /\ SubSeq(name, 1, Len(id) + 1) = id \o <<Slash>>

\* C17: the pairs get_message_list yields for a container are the same for
\* every page size as for a listing in a single page.
C17_PaginationIndependent ==
    \A p \in Procs :
        Exhausted(p) => hist.yielded = Yields(AllNames(store), 1)

\* C18: every pending marker that get_message_list yields belongs to the
\* message it is yielded with, and every message without a tombstone of
\* its own is yielded, whatever keys other identifiers have.
C18_GroupLocal ==
    /\ \A i \in 1..Len(hist.yielded) :
          \/ hist.yielded[i][2] = None
          \/ InGroup(hist.yielded[i][2], hist.yielded[i][1])
    /\ \A p \in Procs :
          Exhausted(p) =>
             \A m \in MsgIds(store) :
                ~Tombstoned(m) => \E i \in 1..Len(hist.yielded) : hist.yielded[i][1] = m

\* C19: a message without tombstone that has several claim markers is
\* yielded with the lexically last of them as its pending marker.
C19_LastMarkerWins ==
    \A i \in 1..Len(hist.yielded) :
       LET m == hist.yielded[i][1]
           pending == hist.yielded[i][2]
       IN  Cardinality(MarkersOf(store, m)) >= 2 /\ ~Tombstoned(m) =>
              /\ pending \in MarkersOf(store, m)
              /\ \A o \in MarkersOf(store, m) : o = pending \/ StrLess(o, pending)

\* the markers sent after the first page strictly increase, no name is
\* listed twice, and there are at most as many page requests as names, plus one
ScanProgress ==
    /\ \A i \in 1..Len(hist.markers) : (i = 1) <=> (hist.markers[i] = None)
    /\ \A i, j \in 2..Len(hist.markers) :
          i < j => StrLess(hist.markers[i], hist.markers[j])
    /\ \A i, j \in 1..Len(hist.listed) :
          i # j => hist.listed[i] # hist.listed[j]
    /\ Len(hist.markers) <= Cardinality(DOMAIN store) + 1

\* C20: on a container with finitely many keys the scan of claim-next
\* sends strictly increasing markers, lists every key at most once and
\* ends after finitely many page requests.
C20_ScanTerminates ==
    /\ []ScanProgress
    /\ \A p \in Procs : (call[p].op = "claim_next") ~> (call[p].pc = "done")

\* a scan over three pages or more has reached its end
C20_Witness ==
    /\ Exhausted(1)
    /\ Len(hist.markers) >= 4
    /\ Len(hist.listed) = Cardinality(DOMAIN store)

====
